---- MODULE Spec2Model ----
(***************************************************************************)
(* A model of src/app.py: the per-symbol moving-average loop               *)
(* (get_stocks_below_ma), the chart grouper (create_charts) and the        *)
(* control flow of main.                                                   *)
(*                                                                         *)
(* Floats are modelled as exact rationals [nan, num, den] (den > 0), with  *)
(* NaN as a value of its own that every comparison answers FALSE for, as   *)
(* IEEE-754 does.  Values rounded to 2 decimals are held as an integer     *)
(* number of hundredths, [nan, c].                                         *)
(***************************************************************************)
EXTENDS Integers, Sequences, FiniteSets, TLC

VARIABLES
    tickers,          \* the list handed to get_stocks_below_ma
    ma_period,        \* selectbox "Moving Average Period (days)"
    stocks_per_page,  \* selectbox "Stocks per chart"
    idx,              \* number of loop iterations completed
    results_list,     \* the rows collected so far / the returned DataFrame
    errors,           \* the st.write("Error processing ...") lines, by ticker
    progress,         \* numerator of the last progress_bar.progress(k/total)
    fetched,          \* what the data source answered for each attempted ticker
    pc,               \* position in main
    ui                \* what main has rendered

vars == <<tickers, ma_period, stocks_per_page, idx, results_list, errors,
          progress, fetched, pc, ui>>

----------------------------------------------------------------------------
\* Bounds of the model

MaxTickers == 3

MaxRows == 60

MaxStride == 3

----------------------------------------------------------------------------
\* Program constants

get_nifty_tickers ==
    << <<"RELIANCE", ".NS">>, <<"TCS", ".NS">>, <<"HDFCBANK", ".NS">>,
       <<"INFY", ".NS">>, <<"ICICIBANK", ".NS">>, <<"HINDUNILVR", ".NS">>,
       <<"ITC", ".NS">>, <<"SBIN", ".NS">>, <<"BHARTIARTL", ".NS">>,
       <<"KOTAKBANK", ".NS">>, <<"LT", ".NS">>, <<"AXISBANK", ".NS">>,
       <<"ASIANPAINT", ".NS">>, <<"MARUTI", ".NS">>, <<"WIPRO", ".NS">>,
       <<"BAJFINANCE", ".NS">>, <<"TITAN", ".NS">>, <<"ULTRACEMCO", ".NS">>,
       <<"SUNPHARMA", ".NS">>, <<"TATAMOTORS", ".NS">>, <<"NTPC", ".NS">>,
       <<"POWERGRID", ".NS">>, <<"M&M", ".NS">>, <<"HCLTECH", ".NS">>,
       <<"ADANIENT", ".NS">>, <<"BAJAJFINSV", ".NS">>, <<"ONGC", ".NS">>,
       <<"COALINDIA", ".NS">>, <<"TATASTEEL", ".NS">>, <<"HINDALCO", ".NS">> >>

StocksPerChartOptions == {10, 15, 20, 25, 30}

MAPeriodOptions == {50, 100, 200}

\* ticker.replace('.NS', ''): every occurrence of the token is removed
StripNS(ticker) == SelectSeq(ticker, LAMBDA tok : tok # ".NS")

----------------------------------------------------------------------------
\* Float arithmetic

Abs(n) == IF n < 0 THEN -n ELSE n

RECURSIVE GCD(_, _)
GCD(a, b) == IF b = 0 THEN a ELSE GCD(b, a % b)

NaN == [nan |-> TRUE, num |-> 0, den |-> 1]

Rat(n, d) ==
    LET g == GCD(Abs(n), Abs(d))
        s == IF d < 0 THEN -1 ELSE 1
    IN  [nan |-> FALSE, num |-> s * (n \div g), den |-> s * (d \div g)]

Flt(n) == [nan |-> FALSE, num |-> n, den |-> 1]

FLt(a, b) == ~a.nan /\ ~b.nan /\ a.num * b.den < b.num * a.den

FSub(a, b) ==
    IF a.nan \/ b.nan THEN NaN
    ELSE Rat(a.num * b.den - b.num * a.den, a.den * b.den)

\* Python float division raises ZeroDivisionError on a zero divisor
DivRaises(b) == ~b.nan /\ b.num = 0

FDiv(a, b) ==
    IF a.nan \/ b.nan THEN NaN ELSE Rat(a.num * b.den, a.den * b.num)

FMul100(a) == IF a.nan THEN NaN ELSE Rat(a.num * 100, a.den)

\* n/d (d > 0) to the nearest integer, ties to even
RoundHalfEven(n, d) ==
    LET q == n \div d
        r == n % d
    IN  IF 2 * r > d THEN q + 1
        ELSE IF 2 * r < d THEN q
        ELSE IF q % 2 = 0 THEN q ELSE q + 1

\* round(x, 2): a number of hundredths; round(nan, 2) is nan
Round2(x) ==
    IF x.nan THEN [nan |-> TRUE, c |-> 0]
    ELSE [nan |-> FALSE, c |-> RoundHalfEven(x.num * 100, x.den)]

\* comparisons of a stored 2-decimal value with 0
Ge0(d) == ~d.nan /\ d.c >= 0

Lt0(d) == ~d.nan /\ d.c < 0

----------------------------------------------------------------------------
\* The data source (yfinance), as the loop sees it.  A price history is
\* held run-length encoded: a sequence of runs [n, close], n >= 1 consecutive
\* trading days with the same close.

Run(n, v) == [n |-> n, close |-> Flt(v)]

SourceKinds ==
    {"network_error", "empty", "exact_period", "scenario", "marginal",
     "below", "nan_close", "zero", "info_error"}

\* hist['Close'] of the answer of kind k for period P
Closes(k, P) ==
    CASE k = "exact_period" -> <<Run(P, 95)>>
      [] k = "scenario"     -> <<Run(10, 80), Run(P \div 2, 90), Run(P \div 2, 100)>>
      [] k = "marginal"     -> <<Run(P, 25000), Run(1, 24999)>>
      [] k = "below"        -> <<Run(P, 100), Run(1, 90)>>
      [] k = "nan_close"    -> <<Run(P - 1, 100), [n |-> 1, close |-> NaN],
                                 Run(1, 100)>>
      [] k = "zero"         -> <<Run(P + 1, 0)>>
      [] k = "info_error"   -> <<Run(P, 90), Run(1, 100)>>
      [] OTHER              -> << >>

\* stock.history(...) raises
HistoryRaises(k) == k = "network_error"

\* stock.info raises
InfoRaises(k) == k = "info_error"

\* stock.info has a 'longName' entry
HasLongName(k) == k \in {"scenario", "below", "nan_close"}

\* hist['Volume'].iloc[-1]
LastVolume(k) == IF k = "scenario" THEN 5000 ELSE 1200

----------------------------------------------------------------------------
\* get_stocks_below_ma: one symbol

RECURSIVE HistLen(_)
\* len(hist)
HistLen(h) == IF Len(h) = 0 THEN 0 ELSE h[1].n + HistLen(Tail(h))

\* hist['Close'].iloc[-1]
LastClose(h) == h[Len(h)].close

\* hist['Close'].iloc[0]
FirstClose(h) == h[1].close

RECURSIVE LastDays(_, _)
\* the last P days of h, for HistLen(h) >= P
LastDays(h, P) ==
    IF P = 0 THEN << >>
    ELSE LET last == h[Len(h)]
         IN  IF last.n >= P THEN <<[n |-> P, close |-> last.close]>>
             ELSE Append(LastDays(SubSeq(h, 1, Len(h) - 1), P - last.n), last)

RECURSIVE SumCloses(_)
SumCloses(w) ==
    IF Len(w) = 0 THEN 0 ELSE w[1].n * w[1].close.num + SumCloses(Tail(w))

AnyNaN(w) == \E i \in 1..Len(w) : w[i].close.nan

\* a mutant: the mean of the whole history
MeanOfAll(h, P) ==
    IF AnyNaN(h) THEN NaN ELSE Rat(SumCloses(h), HistLen(h))

\* hist['Close'].rolling(window=P).mean().iloc[-1]: the mean of the last P
\* closes, NaN when one of them is missing
RollingMeanLast(h, P) ==
    LET w == LastDays(h, P)
    IN  IF AnyNaN(w) THEN NaN ELSE Rat(SumCloses(w), P)

\* a mutant: a history of exactly P days is taken as sufficient
SufficientHistoryInclusive(closes, P) == HistLen(closes) >= P

\* len(hist) > ma_period
SufficientHistory(closes, P) == HistLen(closes) > P

\* below_ma = current_price < current_ma
BelowMA(current_price, current_ma) == FLt(current_price, current_ma)

\* 'Distance_From_MA_%': round(distance_from_ma, 2)
StoredDistance(distance_from_ma) == Round2(distance_from_ma)

\* numpy division: no exception; a zero divisor gives inf or nan
NpPercent(a, b) ==
    IF a.nan \/ b.nan \/ b.num = 0 THEN NaN ELSE FMul100(FDiv(FSub(a, b), b))

\* a mutant: only the fetch's network error is handled
ExceptCatchesNarrow(exc) == exc = "ConnectionError"

\* the exceptions the try block's `except Exception` clause handles

ExceptCatches(exc) == exc \in {"ConnectionError", "ZeroDivisionError", "KeyError"}

\* the body of the try block for one ticker, given the source's answer k:
\* a row to append, nothing (history too short), or an exception
TryBody(ticker, k, P) ==
    IF HistoryRaises(k) THEN [kind |-> "raise", exc |-> "ConnectionError"]
    ELSE
    LET closes == Closes(k, P) IN
    IF ~SufficientHistory(closes, P) THEN [kind |-> "skip"]
    ELSE
    LET current_price == LastClose(closes)
        current_ma    == RollingMeanLast(closes, P)
        below_ma      == BelowMA(current_price, current_ma)
    IN
    IF DivRaises(current_ma)
    THEN [kind |-> "raise", exc |-> "ZeroDivisionError"]
    ELSE
    LET distance_from_ma ==
            FMul100(FDiv(FSub(current_price, current_ma), current_ma))
        price_change == NpPercent(current_price, FirstClose(closes))
    IN
    IF InfoRaises(k) THEN [kind |-> "raise", exc |-> "KeyError"]
    ELSE [kind |-> "row",
          row  |-> [Symbol        |-> StripNS(ticker),
                    Name          |-> IF HasLongName(k)
                                      THEN <<"longName">> \o ticker
                                      ELSE StripNS(ticker),
                    Current_Price |-> Round2(current_price),
                    MA_200        |-> Round2(current_ma),
                    Below_MA      |-> below_ma,
                    Distance      |-> StoredDistance(distance_from_ma),
                    Volume        |-> LastVolume(k),
                    Price_Change  |-> Round2(price_change)]]

----------------------------------------------------------------------------
\* create_charts

\* analysis_df[analysis_df['Distance_From_MA_%'] >= 0]
AboveMask(df) == SelectSeq(df, LAMBDA r : Ge0(r.Distance))

\* analysis_df[analysis_df['Distance_From_MA_%'] < 0]
BelowMask(df) == SelectSeq(df, LAMBDA r : Lt0(r.Distance))

RECURSIVE InsertAsc(_, _)
InsertAsc(s, r) ==
    IF Len(s) = 0 THEN <<r>>
    ELSE IF r.Distance.c < s[Len(s)].Distance.c
         THEN Append(InsertAsc(SubSeq(s, 1, Len(s) - 1), r), s[Len(s)])
         ELSE Append(s, r)

\* a mutant: the rows are left in insertion order
Unsorted(df) == df

RECURSIVE SortAscending(_)
\* .sort_values('Distance_From_MA_%', ascending=True) of rows without NaN
\* (the masks drop them); rows of equal distance keep their order here, which
\* pandas' default quicksort does not promise for larger tables
SortAscending(df) ==
    IF Len(df) = 0 THEN << >>
    ELSE InsertAsc(SortAscending(SubSeq(df, 1, Len(df) - 1)), df[Len(df)])

\* range(0, n, step), as an ascending sequence
RECURSIVE RangeFrom(_, _, _)
RangeFrom(i, n, step) ==
    IF i >= n THEN << >> ELSE <<i>> \o RangeFrom(i + step, n, step)

Min(a, b) == IF a < b THEN a ELSE b

\* a mutant: the slice stops one row early
ChunkAtShort(sorted_df, i, stocks_per_chart) ==
    SubSeq(sorted_df, i + 1, Min(i + stocks_per_chart - 1, Len(sorted_df)))

\* sorted_df.iloc[i:i + stocks_per_chart]
ChunkAt(sorted_df, i, stocks_per_chart) ==
    SubSeq(sorted_df, i + 1, Min(i + stocks_per_chart, Len(sorted_df)))

\* f'{height:.1f}%' of a 2-decimal value: one decimal, in tenths.  The
\* decimal value is rounded here; Python rounds the binary float, which can
\* differ on a value ending in 5 hundredths.
LabelDigits == 1

Pow10(n) == IF n = 0 THEN 1 ELSE IF n = 1 THEN 10 ELSE 100

BarLabel(prefix, d) ==
    [prefix |-> prefix, digits |-> LabelDigits,
     scaled |-> RoundHalfEven(d.c * Pow10(LabelDigits), 100)]

\* one figure: the bars of the chunk starting at i and their text labels
Chart(chunk, i, stocks_per_chart, prefix) ==
    [group   |-> (i \div stocks_per_chart) + 1,
     symbols |-> [j \in 1..Len(chunk) |-> chunk[j].Symbol],
     heights |-> [j \in 1..Len(chunk) |-> chunk[j].Distance],
     labels  |-> [j \in 1..Len(chunk) |-> BarLabel(prefix, chunk[j].Distance)]]

ChartsOf(sorted_df, stocks_per_chart, prefix) ==
    LET starts == RangeFrom(0, Len(sorted_df), stocks_per_chart)
    IN  [g \in 1..Len(starts) |->
            Chart(ChunkAt(sorted_df, starts[g], stocks_per_chart),
                  starts[g], stocks_per_chart, prefix)]

create_charts(analysis_df, stocks_per_chart) ==
    LET above_df == SortAscending(AboveMask(analysis_df))
        below_df == SortAscending(BelowMask(analysis_df))
    IN  [above_df     |-> above_df,
         below_df     |-> below_df,
         above_charts |-> ChartsOf(above_df, stocks_per_chart, "+"),
         below_charts |-> ChartsOf(below_df, stocks_per_chart, "")]

----------------------------------------------------------------------------
\* main: the table under "Detailed Stock Data"

FilterOptions == {"All", "Above MA", "Below MA"}

SortColumns == {"Distance_From_MA_%", "Current_Price", "Volume", "Price_Change_%"}

\* the value of a column of a row, as a float
Column(r, sort_by) ==
    CASE sort_by = "Distance_From_MA_%" -> r.Distance
      [] sort_by = "Current_Price"      -> r.Current_Price
      [] sort_by = "Price_Change_%"     -> r.Price_Change
      [] OTHER                          -> [nan |-> FALSE, c |-> r.Volume]

\* r sorts strictly before x, descending, NaN last
BeforeDesc(r, x, sort_by) ==
    LET a == Column(r, sort_by)
        b == Column(x, sort_by)
    IN  ~a.nan /\ (b.nan \/ a.c > b.c)

RECURSIVE InsertDesc(_, _, _)
InsertDesc(s, r, sort_by) ==
    IF Len(s) = 0 THEN <<r>>
    ELSE IF BeforeDesc(r, s[Len(s)], sort_by)
         THEN Append(InsertDesc(SubSeq(s, 1, Len(s) - 1), r, sort_by), s[Len(s)])
         ELSE Append(s, r)

RECURSIVE SortDescending(_, _)
\* .sort_values(sort_by, ascending=False)
SortDescending(df, sort_by) ==
    IF Len(df) = 0 THEN << >>
    ELSE InsertDesc(SortDescending(SubSeq(df, 1, Len(df) - 1), sort_by),
                    df[Len(df)], sort_by)

FilteredDf(df, filter_option) ==
    CASE filter_option = "Above MA" -> AboveMask(df)
      [] filter_option = "Below MA" -> BelowMask(df)
      [] OTHER                      -> df

\* a mutant: the empty check never answers yes
DfEmptyNever(df) == FALSE

\* df.empty

DfEmpty(df) == Len(df) = 0

----------------------------------------------------------------------------
\* The run of main

NothingRendered ==
    [error |-> FALSE, metrics |-> << >>, charts |-> << >>, table |-> << >>]

Init ==
    /\ \E n \in 0..MaxTickers : tickers = SubSeq(get_nifty_tickers, 1, n)
    /\ ma_period \in MAPeriodOptions
    /\ stocks_per_page \in StocksPerChartOptions
    /\ idx = 0
    /\ results_list = << >>
    /\ errors = << >>
    /\ progress = [num |-> 0, den |-> 1, shown |-> TRUE]
    /\ fetched = << >>
    /\ pc = "loop"
    /\ ui = NothingRendered

\* results_list.append({...}) when the try block got that far
ResultsAfter(results, r) ==
    IF r.kind = "row" THEN Append(results, r.row) ELSE results

\* a mutant: a symbol skipped for its short history is reported as an error
ErrorsAfterLoud(errs, ticker, r) ==
    IF r.kind # "row" THEN Append(errs, ticker) ELSE errs

\* except Exception as e: st.write(f"Error processing {ticker}: ...")
ErrorsAfter(errs, ticker, r) ==
    IF r.kind = "raise" THEN Append(errs, ticker) ELSE errs

\* a mutant: the bar is advanced to idx / total
ProgressAfterLagging(i, total) == [num |-> i, den |-> total, shown |-> TRUE]

\* progress_bar.progress((idx + 1) / total_tickers)
ProgressAfter(i, total) == [num |-> i + 1, den |-> total, shown |-> TRUE]

\* one iteration of the loop of get_stocks_below_ma, the source answering k
GetStocksStep ==
    /\ pc = "loop"
    /\ idx < Len(tickers)
    /\ \E k \in SourceKinds :
        LET ticker == tickers[idx + 1]
            r      == TryBody(ticker, k, ma_period)
        IN  /\ fetched' = Append(fetched, [ticker |-> ticker, answer |-> k])
            /\ IF r.kind = "raise" /\ ~ExceptCatches(r.exc)
               THEN /\ pc' = "aborted"
                    /\ UNCHANGED <<idx, results_list, errors, progress>>
               ELSE /\ results_list' = ResultsAfter(results_list, r)
                    /\ errors' = ErrorsAfter(errors, ticker, r)
                    /\ progress' = ProgressAfter(idx, Len(tickers))
                    /\ idx' = idx + 1
                    /\ pc' = pc
    /\ UNCHANGED <<tickers, ma_period, stocks_per_page, ui>>

\* the loop is over: progress_bar.empty(); return pd.DataFrame(results_list)
GetStocksReturn ==
    /\ pc = "loop"
    /\ idx >= Len(tickers)
    /\ progress' = [progress EXCEPT !.shown = FALSE]
    /\ pc' = "fetched"
    /\ UNCHANGED <<tickers, ma_period, stocks_per_page, idx, results_list,
                   errors, fetched, ui>>

\* if df.empty: st.error(...); return
MainEmpty ==
    /\ pc = "fetched"
    /\ DfEmpty(results_list)
    /\ ui' = [ui EXCEPT !.error = TRUE]
    /\ pc' = "nodata"
    /\ UNCHANGED <<tickers, ma_period, stocks_per_page, idx, results_list,
                   errors, progress, fetched>>

\* the rest of main: the three metrics, the charts and the table
MainRender ==
    /\ pc = "fetched"
    /\ ~DfEmpty(results_list)
    /\ \E filter_option \in FilterOptions, sort_by \in SortColumns :
        LET c == create_charts(results_list, stocks_per_page)
        IN  ui' = [error   |-> ui.error,
                   metrics |-> <<[Total |-> Len(results_list),
                                  Above |-> Len(AboveMask(results_list)),
                                  Below |-> Len(BelowMask(results_list))]>>,
                   charts  |-> <<c>>,
                   table   |-> <<SortDescending(
                                    FilteredDf(results_list, filter_option),
                                    sort_by)>>]
    /\ pc' = "done"
    /\ UNCHANGED <<tickers, ma_period, stocks_per_page, idx, results_list,
                   errors, progress, fetched>>

Next == GetStocksStep \/ GetStocksReturn \/ MainEmpty \/ MainRender

Spec == Init /\ [][Next]_vars

----------------------------------------------------------------------------
\* create_charts on its own, over larger tables than the loop above builds

\* (Distance_From_MA_% in hundredths, Below_MA) pairs the loop can store
Palette ==
    << <<526, FALSE>>, <<-150, TRUE>>, <<0, FALSE>>, <<-1, TRUE>>,
       <<1200, FALSE>>, <<-3000, TRUE>>, <<75, FALSE>>, <<0, TRUE>>,
       <<-990, TRUE>>, <<526, FALSE>>, <<3, FALSE>>, <<-150, TRUE>>,
       <<1, FALSE>> >>

SyntheticRow(i, stride) ==
    LET e == Palette[((i * stride) % Len(Palette)) + 1]
        d == [nan |-> FALSE, c |-> e[1]]
    IN  [Symbol        |-> <<"SYM", ToString(i)>>,
         Name          |-> <<"SYM", ToString(i)>>,
         Current_Price |-> [nan |-> FALSE, c |-> 10000 + e[1]],
         MA_200        |-> [nan |-> FALSE, c |-> 10000],
         Below_MA      |-> e[2],
         Distance      |-> IF i % 17 = 5 THEN [nan |-> TRUE, c |-> 0] ELSE d,
         Volume        |-> 1200,
         Price_Change  |-> d]

ChartsInit ==
    /\ \E n \in 0..MaxRows, stride \in 1..MaxStride :
          results_list = [i \in 1..n |-> SyntheticRow(i, stride)]
    /\ stocks_per_page \in StocksPerChartOptions
    /\ tickers = << >>
    /\ ma_period = 200
    /\ idx = 0
    /\ errors = << >>
    /\ progress = [num |-> 0, den |-> 1, shown |-> FALSE]
    /\ fetched = << >>
    /\ pc = "call"
    /\ ui = NothingRendered

\* above_charts, below_charts = create_charts(df, stocks_per_page)
ChartsCall ==
    /\ pc = "call"
    /\ ui' = [ui EXCEPT
                !.charts = <<create_charts(results_list, stocks_per_page)>>]
    /\ pc' = "charted"
    /\ UNCHANGED <<tickers, ma_period, stocks_per_page, idx, results_list,
                   errors, progress, fetched>>

ChartsNext == ChartsCall

SpecCharts == ChartsInit /\ [][ChartsNext]_vars

----------------------------------------------------------------------------
\* Vocabulary of the properties

N == Len(tickers)

Attempts == 1..Len(fetched)

Answer(i) == fetched[i].answer

\* the history the source returned for attempt i (none when the fetch raised)
HistDays(i) == HistLen(Closes(Answer(i), ma_period))

LongEnough(i) == ~HistoryRaises(Answer(i)) /\ HistDays(i) > ma_period

\* the computation after a successful fetch of a long enough history raises:
\* a zero moving average divides by zero, or the name lookup fails
ComputationRaises(i) ==
    /\ LongEnough(i)
    /\ \/ DivRaises(RollingMeanLast(Closes(Answer(i), ma_period), ma_period))
       \/ InfoRaises(Answer(i))

Failing(i) == HistoryRaises(Answer(i)) \/ ComputationRaises(i)

FailIdx == {i \in Attempts : Failing(i)}

RowsFor(sym) == {j \in 1..Len(results_list) : results_list[j].Symbol = sym}

RECURSIVE Pick(_, _, _)
\* the entries of seq[1..n] at the positions in S, in order
Pick(seq, n, S) ==
    IF n = 0 THEN << >>
    ELSE Pick(seq, n - 1, S) \o (IF n \in S THEN <<seq[n]>> ELSE << >>)

RECURSIVE Flatten(_)
Flatten(ss) == IF Len(ss) = 0 THEN << >> ELSE Head(ss) \o Flatten(Tail(ss))

Symbols(df) == [j \in 1..Len(df) |-> df[j].Symbol]

Rendered == Len(ui.charts) = 1

TheCharts == ui.charts[1]

SymbolSet(df) == {df[j].Symbol : j \in 1..Len(df)}

\* the position <<g, j>> of every bar showing sym in a sequence of charts
BarsOf(charts, sym) ==
    UNION {{<<g, j>> : j \in {x \in 1..Len(charts[g].symbols) :
                                charts[g].symbols[x] = sym}} :
           g \in 1..Len(charts)}

----------------------------------------------------------------------------
\* C1, as stated: a ticker has exactly one row if the history fetched for it
\* has more than P rows, and no row otherwise.
C1_RowIffLongHistory ==
    /\ pc # "loop" => Len(fetched) = N
    /\ \A i \in Attempts :
          Cardinality(RowsFor(StripNS(fetched[i].ticker))) =
              IF LongEnough(i) THEN 1 ELSE 0

\* C1, amended: a ticker has exactly one row if the history fetched for it
\* has more than P rows and computing its metrics raised no exception, and no
\* row otherwise; after the loop this covers every ticker of the input.
C1_RowIffLongHistoryAndNoRaise ==
    /\ pc # "loop" => Len(fetched) = N
    /\ \A i \in Attempts :
          Cardinality(RowsFor(StripNS(fetched[i].ticker))) =
              IF LongEnough(i) /\ ~ComputationRaises(i) THEN 1 ELSE 0

C1_Witness ==
    /\ pc = "fetched"
    /\ \E i, j, l \in Attempts :
          /\ Answer(i) = "exact_period"
          /\ Answer(j) = "scenario"
          /\ Answer(l) = "info_error"
    /\ Len(results_list) = 1

\* C2, as stated: in every row the stored Below_MA flag equals (stored
\* distance < 0), so a row is in the 'below' subset exactly when its flag is
\* set and in the 'above' subset exactly when it is not.
C2_FlagMatchesSign ==
    \A j \in 1..Len(results_list) :
        LET r == results_list[j]
        IN  /\ r.Below_MA = Lt0(r.Distance)
            /\ Rendered =>
                  /\ r.Below_MA <=> BarsOf(TheCharts.below_charts, r.Symbol) # {}
                  /\ ~r.Below_MA <=> BarsOf(TheCharts.above_charts, r.Symbol) # {}

\* C3: no failure aborts the run; one error line per failing symbol and none
\* for another, in input order; when every non-failing symbol has enough
\* history the rows are exactly the non-failing symbols, in input order.
C3_FailuresAreIsolated ==
    /\ pc # "aborted"
    /\ pc # "loop" => Len(fetched) = N
    /\ errors = Pick(tickers, Len(fetched), FailIdx)
    /\ (\A i \in Attempts \ FailIdx : LongEnough(i)) =>
          /\ Len(results_list) = Len(fetched) - Cardinality(FailIdx)
          /\ Symbols(results_list) =
                Pick([i \in 1..N |-> StripNS(tickers[i])], Len(fetched),
                     Attempts \ FailIdx)

C3_Witness ==
    /\ pc = "fetched"
    /\ N = 3
    /\ FailIdx = {2}
    /\ Len(results_list) = 2
    /\ errors = <<tickers[2]>>

\* C4: main shows the 'no data' error, and nothing else, exactly when the
\* returned table is empty; with at least one row it shows the summary and
\* the table and no error; and it never stops between the two.
C4_NoDataIffEmpty ==
    /\ pc \in {"loop", "fetched"} => ui = NothingRendered
    /\ pc = "fetched" /\ Len(results_list) = 0 =>
          ENABLED MainEmpty /\ ~ENABLED MainRender
    /\ pc = "fetched" /\ Len(results_list) > 0 => ~ENABLED MainEmpty
    /\ pc = "nodata" =>
          /\ Len(results_list) = 0
          /\ ui = [NothingRendered EXCEPT !.error = TRUE]
    /\ pc = "done" =>
          /\ Len(results_list) > 0
          /\ ~ui.error
          /\ Len(ui.metrics) = 1 /\ ui.metrics[1].Total = Len(results_list)
          /\ Len(ui.charts) = 1
          /\ Len(ui.table) = 1

C4_Witness ==
    /\ pc = "nodata"
    /\ \E i, j \in Attempts :
          Answer(i) = "network_error" /\ Answer(j) = "exact_period"

\* the chunking properties of one subset: S rows in, charts out, sorted_df
\* the sorted subset the charts were cut from
ChunkedRight(S, sorted_df, charts, K) ==
    /\ Len(charts) = (S + K - 1) \div K
    /\ \A g \in 1..Len(charts) - 1 : Len(charts[g].symbols) = K
    /\ Len(charts) > 0 => Len(charts[Len(charts)].symbols) \in 1..K
    /\ \A g \in 1..Len(charts) :
          /\ charts[g].group = g
          /\ Len(charts[g].heights) = Len(charts[g].symbols)
    /\ Len(sorted_df) = S
    /\ Flatten([g \in 1..Len(charts) |-> charts[g].symbols]) = Symbols(sorted_df)
    /\ Flatten([g \in 1..Len(charts) |-> charts[g].heights])
          = [j \in 1..S |-> sorted_df[j].Distance]
    /\ S = 0 => charts = << >>

\* C5: each subset of size S is cut into ceil(S/K) charts; every chart but
\* the last has K bars and the last has 1..K; the charts, in order, are
\* contiguous slices that together are the whole sorted subset; an empty
\* subset gives no chart.
C5_Chunking ==
    Rendered =>
        /\ stocks_per_page \in StocksPerChartOptions
        /\ ChunkedRight(Len(AboveMask(results_list)), TheCharts.above_df,
                        TheCharts.above_charts, stocks_per_page)
        /\ ChunkedRight(Len(BelowMask(results_list)), TheCharts.below_df,
                        TheCharts.below_charts, stocks_per_page)
        /\ SymbolSet(TheCharts.above_df) = SymbolSet(AboveMask(results_list))
        /\ SymbolSet(TheCharts.below_df) = SymbolSet(BelowMask(results_list))

C5_Witness ==
    /\ Rendered
    /\ Len(TheCharts.above_charts) >= 3
    /\ Len(TheCharts.above_charts[Len(TheCharts.above_charts)].symbols)
          < stocks_per_page
    /\ TheCharts.below_charts # << >>

\* the bar heights of a sequence of charts, chart after chart
Heights(charts) == Flatten([g \in 1..Len(charts) |-> charts[g].heights])

NonDecreasing(hs) ==
    \A j \in 1..Len(hs) - 1 : ~hs[j].nan /\ ~hs[j + 1].nan /\ hs[j].c <= hs[j + 1].c

\* C6: in every chart the distances are non-decreasing in bar order, the
\* last of a chart is <= the first of the next chart of its subset, every
\* 'above' value is >= 0 and every 'below' value is < 0.
C6_SortedAcrossGroups ==
    Rendered =>
        /\ NonDecreasing(Heights(TheCharts.above_charts))
        /\ NonDecreasing(Heights(TheCharts.below_charts))
        /\ \A j \in 1..Len(Heights(TheCharts.above_charts)) :
              Ge0(Heights(TheCharts.above_charts)[j])
        /\ \A j \in 1..Len(Heights(TheCharts.below_charts)) :
              Lt0(Heights(TheCharts.below_charts)[j])

C6_Witness ==
    /\ Rendered
    /\ Len(TheCharts.above_charts) >= 2
    /\ Len(TheCharts.below_charts) >= 2
    /\ TheCharts.above_charts[1].heights[1].c
          < TheCharts.above_charts[2].heights[1].c
    /\ Symbols(TheCharts.below_df) # Symbols(BelowMask(results_list))

\* the row and the bar label of a symbol whose answer was the scenario's
\* history: 210 closes, period 200, last close 100, trailing mean 95
ScenarioShows(label) ==
    pc = "done" /\ ma_period = 200 =>
        \A i \in Attempts : Answer(i) = "scenario" =>
            LET sym == StripNS(fetched[i].ticker) IN
            /\ \A j \in RowsFor(sym) :
                  /\ results_list[j].Distance = [nan |-> FALSE, c |-> 526]
                  /\ ~results_list[j].Below_MA
            /\ RowsFor(sym) # {}
            /\ BarsOf(TheCharts.below_charts, sym) = {}
            /\ BarsOf(TheCharts.above_charts, sym) # {}
            /\ \A p \in BarsOf(TheCharts.above_charts, sym) :
                  TheCharts.above_charts[p[1]].labels[p[2]] = label

\* C7, as stated: the scenario gives a row with distance 5.26, classified
\* 'above', whose bar label is '+5.26%'.
C7_LabelTwoDecimals ==
    ScenarioShows([prefix |-> "+", digits |-> 2, scaled |-> 526])

\* C7, amended: the scenario gives a row with distance 5.26, classified
\* 'above', whose bar label is '+5.3%': the label shows one decimal.
C7_LabelOneDecimal ==
    ScenarioShows([prefix |-> "+", digits |-> 1, scaled |-> 53])

C7_Witness ==
    /\ pc = "done"
    /\ ma_period = 200
    /\ \E i \in Attempts :
          /\ Answer(i) = "scenario"
          /\ HistDays(i) = 210
          /\ LastClose(Closes("scenario", 200)) = Flt(100)
          /\ RollingMeanLast(Closes("scenario", 200), 200) = Flt(95)

\* C8: the symbols are attempted once each in input order; the progress
\* counter starts at 0, goes up by one with every completed symbol, never
\* goes down or past N, and is N once the loop is over, which it is after N
\* iterations.
C8_Progress ==
    /\ [](/\ idx \in 0..N
          /\ Len(fetched) = idx
          /\ \A i \in Attempts : fetched[i].ticker = tickers[i]
          /\ progress.num = idx
          /\ idx > 0 => progress.den = N
          /\ pc = "loop" => (ENABLED GetStocksStep <=> idx < N)
          /\ pc = "loop" => (ENABLED GetStocksReturn <=> idx = N)
          /\ pc # "loop" => idx = N /\ progress.num = N)
    /\ [][/\ idx' \in {idx, idx + 1}
          /\ progress'.num = progress.num + (idx' - idx)
          /\ Len(fetched') = Len(fetched) + (idx' - idx)]_vars

C8_Witness ==
    /\ pc = "fetched"
    /\ N = 3
    /\ progress.num = 3
    /\ {Answer(i) : i \in Attempts} = {"network_error", "exact_period", "below"}

\* C9: a symbol fetched with a history of at most P rows is skipped in
\* silence: no error line, no row, the rows collected so far unchanged, and
\* the loop goes on; an error line is written only for a symbol whose
\* processing raised.
C9_SilentExclusion ==
    /\ [](\A j \in 1..Len(errors) :
              \E i \in FailIdx : fetched[i].ticker = errors[j])
    /\ [][LET a == fetched'[Len(fetched')]
          IN  (/\ Len(fetched') = Len(fetched) + 1
               /\ ~HistoryRaises(a.answer)
               /\ HistLen(Closes(a.answer, ma_period)) <= ma_period)
              => /\ errors' = errors
                 /\ results_list' = results_list
                 /\ idx' = idx + 1
                 /\ pc' = "loop"]_vars

C9_Witness ==
    /\ pc = "fetched"
    /\ N >= 2
    /\ Answer(1) = "exact_period"
    /\ Answer(2) = "below"
    /\ errors = << >>
    /\ Len(results_list) = 1

\* C10, as stated: the two predicates partition the rows of every result:
\* above + below = total, every row is a bar of exactly one chart, and a
\* non-empty result gives at least one chart.
C10_Partition ==
    pc = "done" =>
        /\ ui.metrics[1].Above + ui.metrics[1].Below = ui.metrics[1].Total
        /\ \A j \in 1..Len(results_list) :
              Cardinality(BarsOf(TheCharts.above_charts, results_list[j].Symbol))
              + Cardinality(BarsOf(TheCharts.below_charts, results_list[j].Symbol))
              = 1
        /\ Len(TheCharts.above_charts) + Len(TheCharts.below_charts) >= 1

====
